---------------------------- MODULE Spec2Model ----------------------------
(***************************************************************************)
(* Restyaboard -> Trello conversion (restya2trello.py, function main).     *)
(*                                                                         *)
(* JSON objects are records that carry exactly the keys present in the     *)
(* document, so dict.get(key, default) is Get(r, key, default) and r[key]  *)
(* on an absent key is the KeyError that ends the run (pc = "fatal").      *)
(* JSON strings whose characters the code inspects (due_date) are          *)
(* sequences of one-character strings; all other strings are atoms.        *)
(* The non-ASCII literal of line 171 is written as its code points.        *)
(***************************************************************************)
EXTENDS Integers, Sequences, FiniteSets, TLC

(***************************************************************************)
(* Bounds of the explored inputs.                                          *)
(***************************************************************************)
MaxLists == 3
MaxCards == 2
MaxRefs == 2
MaxChecklists == 1
MaxItems == 1
MaxClock == 1

(***************************************************************************)
(* Python / JSON values.                                                   *)
(***************************************************************************)
\* None, where a string is expected (strings are character sequences there).
Null == <<"None">>

Get(r, k, d) == IF k \in DOMAIN r THEN r[k] ELSE d

Has(r, k) == k \in DOMAIN r

Without(r, k) == [x \in DOMAIN r \ {k} |-> r[x]]

Digit == <<"0", "1", "2", "3", "4", "5", "6", "7", "8", "9">>

RECURSIVE PyStr(_)
PyStr(n) == IF n < 10 THEN Digit[n + 1] ELSE PyStr(n \div 10) \o Digit[(n % 10) + 1]

(***************************************************************************)
(* Program constants.                                                      *)
(***************************************************************************)
COLOR_MAPPING ==
  [h \in {"#0091ff", "#baa1e6", "#f47564", "#f7b09c", "#ffce54"} |->
     CASE h = "#0091ff" -> [trello_color |-> "blue", label_name |-> "INFO"]
       [] h = "#baa1e6" -> [trello_color |-> "purple", label_name |-> "FETAL"]
       [] h = "#f47564" -> [trello_color |-> "red", label_name |-> "CRITICAL"]
       [] h = "#f7b09c" -> [trello_color |-> "pink", label_name |-> "ERROR"]
       [] h = "#ffce54" -> [trello_color |-> "orange", label_name |-> "WARNING"]]

DefaultLabelColor == "green"

DefaultLabelName == "U+6B63U+5E38"

DefaultBoardIdNum == 12345

list_pos_base == 16384

card_pos_base == 16384

id_organization == "5b7a154eae8467f69089c4"

(***************************************************************************)
(* hashlib.md5(...).hexdigest()[:n]: an uninterpreted digest, equal        *)
(* exactly when text and length are equal.                                 *)
(***************************************************************************)
Md5Hex(text, n) == [md5 |-> text, hex |-> n]

gen_trello_id(value) == Md5Hex(PyStr(value), 24)

gen_trello_id_str(value) == Md5Hex(value, 24)

gen_short_link(value) == Md5Hex(value, 8)

normalize_due(due_value) ==
  IF due_value # Null /\ Len(due_value) > 0 /\ due_value[Len(due_value)] # "Z"
    THEN Append(due_value, "Z")
    ELSE due_value


(***************************************************************************)
(* Inputs: the parsed document restya_data (json.load, line 91).           *)
(*                                                                         *)
(* SeqsUpTo(S, n): the sequences over S of length 0..n.                    *)
(***************************************************************************)
SeqsUpTo(S, n) == UNION {[1..m -> S] : m \in 0..n}

Doc(lists) == [data |-> lists]

\* Lists that differ in position and have one card or none; every record
\* has its id.  Positions are absent, negative or positive, so that the
\* default 0 of line 188 falls between present values and ties occur.
PosShapes == {<<FALSE, 0>>, <<TRUE, -1>>, <<TRUE, 1>>}

PlainCard(k, i) == [id |-> 10 * k + i, name |-> "card"]

PlainCards(k, n) == [i \in 1..n |-> PlainCard(k, i)]

ShapedList(k, shape) ==
  LET base == [id |-> k, name |-> "list", cards |-> PlainCards(k, shape.n)]
  IN  IF shape.pos[1] THEN ("position" :> shape.pos[2]) @@ base ELSE base

OrderInputs ==
  {Doc([k \in DOMAIN sh |-> ShapedList(k, sh[k])]) :
     sh \in SeqsUpTo([pos : PosShapes, n : 0..1], MaxLists) \ {<< >>}}

\* One or two lists of 0..MaxCards cards; no record, one list or one card of the
\* document lacks its id (hole <<k, 0>> is list k, <<k, i>> its i-th card).
\* List k has position -k, so the lists are traversed in the reverse of
\* their input order.
HoleList(k, n, hole) ==
  LET cs == [i \in 1..n |->
               IF hole = <<k, i>> THEN Without(PlainCard(k, i), "id") ELSE PlainCard(k, i)]
      l  == [id |-> k, position |-> 0 - k, cards |-> cs]
  IN  IF hole = <<k, 0>> THEN Without(l, "id") ELSE l

CountInputs ==
  {Doc([k \in DOMAIN ns |-> HoleList(k, ns[k], hole)]) :
     <<ns, hole>> \in
       {<<ns, h>> \in (SeqsUpTo(0..MaxCards, 2) \ {<< >>})
                        \X ((0..2) \X (0..MaxCards)) :
          \/ h = <<0, 0>>
          \/ h[1] \in DOMAIN ns /\ h[2] <= ns[h[1]]}}

\* Label references spread over MaxCards cards.  Card 1 is in a list of
\* position 2 and the other cards in a list of position 1, so the traversal
\* visits card 1 last.
LabelRefs ==
  { [id |-> 5, color |-> "#ffce54"],
    [id |-> 6, color |-> "#ffce54"],
    [id |-> 7, color |-> "#000000"],
    [color |-> "#0091ff"],
    [name |-> "no id and no color"] }

Monotone(f) == \A i, j \in DOMAIN f : i <= j => f[i] <= f[j]

Pick(s, idx) == [i \in 1..Len(idx) |-> s[idx[i]]]

RECURSIVE IndicesWhere(_, _, _)
IndicesWhere(f, c, i) ==
  IF i > Len(f) THEN << >>
  ELSE IF f[i] = c THEN <<i>> \o IndicesWhere(f, c, i + 1)
       ELSE IndicesWhere(f, c, i + 1)

LabelCard(c, refs, cardOf) ==
  [id |-> 100 + c, name |-> "card", cards_labels |-> Pick(refs, IndicesWhere(cardOf, c, 1))]

LabelInputs ==
  {Doc(<< [id |-> 1, position |-> 2, cards |-> <<LabelCard(1, refs, cardOf)>>],
          [id |-> 2, position |-> 1,
           cards |-> [c \in 1..(MaxCards - 1) |-> LabelCard(c + 1, refs, cardOf)]] >>) :
     <<refs, cardOf>> \in
       {<<r, f>> \in SeqsUpTo(LabelRefs, MaxRefs) \X SeqsUpTo(1..MaxCards, MaxRefs) :
          Len(r) = Len(f) /\ Monotone(f)}}

\* One label reference for every palette color, an unknown color, an empty
\* color and an absent color.
PaletteInputs ==
  {Doc(<< [id |-> 1, cards |-> << [id |-> 11, cards_labels |-> <<lb>>] >>] >>) :
     lb \in {[id |-> 9, color |-> h] : h \in DOMAIN COLOR_MAPPING \cup {"#000000", ""}}
            \cup {[id |-> 9]}}

\* Checklists and check-items with and without id, name and is_completed.
Items ==
  { [id |-> 31, name |-> "item", is_completed |-> 1],
    [id |-> 32],
    [name |-> "item without id"] }

ChecklistsOf(items) ==
  { [id |-> 21, name |-> "todo", checklists_items |-> items],
    [id |-> 22, checklists_items |-> items],
    [name |-> "checklist without id", checklists_items |-> items] }

Checklists ==
  UNION {ChecklistsOf(items) : items \in SeqsUpTo(Items, MaxItems)} \cup {[id |-> 23]}

ChecklistInputs ==
  {Doc(<< [id |-> 1, cards |-> << [id |-> 11, cards_checklists |-> chs] >>] >>) :
     chs \in SeqsUpTo(Checklists, MaxChecklists)}

\* Records that lack optional fields, or carry every field.
FullCard ==
  [id |-> 11, name |-> "Task A", description |-> "text", is_archived |-> 1,
   due_date |-> <<"2", "0", "2", "5">>,
   cards_labels |-> << [id |-> 5, color |-> "#ffce54"] >>,
   cards_checklists |-> << [id |-> 21, checklists_items |-> << [id |-> 31] >>] >>]

FieldCards ==
  { FullCard,
    [id |-> 11],
    [id |-> 11, name |-> "", description |-> "", due_date |-> Null],
    [id |-> 11, due_date |-> <<"2", "0", "2", "5", "Z">>, cards_labels |-> << >>],
    [id |-> 11, due_date |-> << >>, cards_checklists |-> << >>] }

FieldInputs ==
  {Doc(<< [id |-> 1, name |-> "To Do", position |-> 1, is_archived |-> 0,
           board_id |-> 7, cards |-> <<c>>] >>) : c \in FieldCards}
  \cup {Doc(<< [id |-> 1] >>), Doc(<< [id |-> 1, cards |-> << >>, name |-> ""] >>),
        Doc(<< [id |-> 1, cards |-> << [id |-> 11] >>], [id |-> 2, board_id |-> 7] >>)}

\* No board data at all: no data key, or an empty array.
EmptyInputs == {[version |-> 1], Doc(<< >>)}

Inputs ==
  OrderInputs \cup CountInputs \cup LabelInputs \cup PaletteInputs
  \cup ChecklistInputs \cup FieldInputs \cup EmptyInputs

\* The documents that are converted twice.
RepeatedInputs == PaletteInputs \cup FieldInputs \cup EmptyInputs


(***************************************************************************)
(* State of one conversion: the locals of main, the file it writes, and    *)
(* the wall clock that datetime.utcnow() reads.                            *)
(***************************************************************************)
VARIABLES
  restya_data,        \* the parsed input document
  runsLeft,           \* further conversions of the same document still to come
  earlier,            \* the documents written by the earlier conversions
  now,                \* the last value read from the wall clock
  pc,                 \* position in main
  board_id,
  board_labels_dict,  \* insertion-ordered: sequence of [key, val]
  data_lists_sorted,
  li,                 \* enumerate index of the list loop
  ci,                 \* enumerate index of the card loop
  lbi,                \* index of the next entry of cards_labels
  chi,                \* enumerate index of the checklist loop
  card,               \* locals of the card in progress
  lists,
  cards,
  checklists_global,
  card_counter,
  trello_data,        \* the assembled board, << >> before line 407
  written             \* the documents json.dump has written to output_file

vars ==
  <<restya_data, runsLeft, earlier, now, pc, board_id, board_labels_dict,
    data_lists_sorted, li, ci, lbi, chi, card, lists, cards, checklists_global,
    card_counter, trello_data, written>>

NoCard == << >>

NoBoard == << >>

\* Python truthiness of a sequence-valued field fetched with .get(key).
SeqOrEmpty(r, k) == Get(r, k, << >>)

(***************************************************************************)
(* sorted(restya_data["data"], key=position or 0): stable.                 *)
(***************************************************************************)
PositionKey(x) == Get(x, "position", 0)

\* Faulty variant: equal keys are swapped (an unstable sort).
RECURSIVE InsertByKeyUnstable(_, _)
InsertByKeyUnstable(s, x) ==
  IF s = << >> THEN <<x>>
  ELSE IF PositionKey(s[Len(s)]) < PositionKey(x) THEN Append(s, x)
       ELSE Append(InsertByKeyUnstable(SubSeq(s, 1, Len(s) - 1), x), s[Len(s)])

RECURSIVE InsertByKey(_, _)
InsertByKey(s, x) ==
  IF s = << >> THEN <<x>>
  ELSE IF PositionKey(s[Len(s)]) <= PositionKey(x) THEN Append(s, x)
       ELSE Append(InsertByKey(SubSeq(s, 1, Len(s) - 1), x), s[Len(s)])

RECURSIVE SortedByPosition(_)
SortedByPosition(s) ==
  IF s = << >> THEN << >>
  ELSE InsertByKey(SortedByPosition(SubSeq(s, 1, Len(s) - 1)), s[Len(s)])

(***************************************************************************)
(* get_or_create_board_label (lines 155-183) on the dictionary d.          *)
(***************************************************************************)
\* Faulty variant: no fallback for a color outside the palette.
MappedKeyNoFallback(restya_label) ==
  LET color_hex == Get(restya_label, "color", "")
      mapped == IF color_hex \in DOMAIN COLOR_MAPPING THEN COLOR_MAPPING[color_hex] ELSE << >>
  IN  <<Get(mapped, "trello_color", ""), Get(mapped, "label_name", "")>>

MappedKey(restya_label) ==
  LET color_hex == Get(restya_label, "color", "")
      mapped == IF color_hex \in DOMAIN COLOR_MAPPING THEN COLOR_MAPPING[color_hex] ELSE << >>
      trello_color == Get(mapped, "trello_color", "")
      label_name == Get(mapped, "label_name", "")
  IN  IF trello_color = "" /\ label_name = ""
        THEN <<DefaultLabelColor, DefaultLabelName>>
        ELSE <<trello_color, label_name>>

KeyIndex(d, key) ==
  IF \E i \in DOMAIN d : d[i].key = key
    THEN CHOOSE i \in DOMAIN d : d[i].key = key
    ELSE 0

NewLabel(restya_label, bid) ==
  LET key == MappedKey(restya_label)
  IN  [id |-> IF Has(restya_label, "id") THEN gen_trello_id(restya_label.id)
                                       ELSE gen_trello_id_str("unknownLabel"),
       idBoard |-> bid, name |-> key[2], color |-> key[1], uses |-> 0]

\* Faulty variant: the membership test of line 174 is missing.
get_or_create_always_creates(d, restya_label, bid) ==
  Append(d, [key |-> MappedKey(restya_label), val |-> NewLabel(restya_label, bid)])

get_or_create_board_label(d, restya_label, bid) ==
  LET key == MappedKey(restya_label)
  IN  IF KeyIndex(d, key) = 0
        THEN Append(d, [key |-> key, val |-> NewLabel(restya_label, bid)])
        ELSE d

\* label_obj["uses"] += 1 (line 229) on the canonical entry of key.
IncrementUses(d, key) ==
  [d EXCEPT ![KeyIndex(d, key)].val.uses = @ + 1]

DictValues(d) == [i \in DOMAIN d |-> d[i].val]

(***************************************************************************)
(* Initial state: a document has been loaded (line 91).                    *)
(***************************************************************************)
RunInit ==
  /\ pc = "start"
  /\ board_id = << >>
  /\ board_labels_dict = << >>
  /\ data_lists_sorted = << >>
  /\ li = 0 /\ ci = 0 /\ lbi = 0 /\ chi = 0
  /\ card = NoCard
  /\ lists = << >>
  /\ cards = << >>
  /\ checklists_global = << >>
  /\ card_counter = 0
  /\ trello_data = NoBoard
  /\ written = << >>

Init ==
  /\ \/ restya_data \in Inputs /\ runsLeft = 0
     \/ restya_data \in RepeatedInputs /\ runsLeft = 1
  /\ earlier = << >>
  /\ now = 0
  /\ RunInit


(***************************************************************************)
(* Locals that the loops of main derive from their indices.                *)
(***************************************************************************)
list_item == data_lists_sorted[li]

list_id == gen_trello_id(list_item.id)

list_pos == list_pos_base * li

cards_data == SeqOrEmpty(list_item, "cards")

card_item == cards_data[ci]

card_refs == SeqOrEmpty(card_item, "cards_labels")

card_checklists == SeqOrEmpty(card_item, "cards_checklists")

\* utcnow(): the clock never runs backwards; it is cut off at MaxClock.
ClockReads == now..MaxClock

(***************************************************************************)
(* Lines 94-141: no data, the minimal board is written and main returns.   *)
(***************************************************************************)
HasData == Has(restya_data, "data") /\ restya_data.data # << >>

empty_board ==
  [id |-> gen_trello_id(DefaultBoardIdNum), name |-> "TrelloBoard",
   lists |-> << >>, cards |-> << >>, labels |-> << >>, checklists |-> << >>]

\* Faulty variant: the return of line 141 is missing, and line 144 raises.
WriteEmptyBoardNoReturn ==
  /\ pc = "start"
  /\ ~HasData
  /\ written' = Append(written, empty_board)
  /\ pc' = "fatal"
  /\ UNCHANGED <<restya_data, runsLeft, earlier, now, board_id, board_labels_dict,
                 data_lists_sorted, li, ci, lbi, chi, card, lists, cards,
                 checklists_global, card_counter, trello_data>>

WriteEmptyBoard ==
  /\ pc = "start"
  /\ ~HasData
  /\ written' = Append(written, empty_board)
  /\ pc' = "done"
  /\ UNCHANGED <<restya_data, runsLeft, earlier, now, board_id, board_labels_dict,
                 data_lists_sorted, li, ci, lbi, chi, card, lists, cards,
                 checklists_global, card_counter, trello_data>>

(***************************************************************************)
(* Lines 143-199: board id from the first list as given, the sort, and     *)
(* the counters.                                                           *)
(***************************************************************************)
Setup ==
  /\ pc = "start"
  /\ HasData
  /\ board_id' = gen_trello_id(Get(restya_data.data[1], "board_id", DefaultBoardIdNum))
  /\ data_lists_sorted' = SortedByPosition(restya_data.data)
  /\ card_counter' = 1
  /\ li' = 1
  /\ pc' = "lists"
  /\ UNCHANGED <<restya_data, runsLeft, earlier, now, board_labels_dict, ci, lbi, chi,
                 card, lists, cards, checklists_global, trello_data, written>>

(***************************************************************************)
(* Lines 202-216: one iteration head of the list loop.                     *)
(***************************************************************************)
NextList ==
  /\ pc = "lists"
  /\ li <= Len(data_lists_sorted)
  /\ Has(list_item, "id")
  /\ lists' = Append(lists,
       [id |-> list_id, name |-> Get(list_item, "name", ""),
        closed |-> (Get(list_item, "is_archived", 0) = 1),
        idBoard |-> board_id, pos |-> list_pos, idOrganization |-> id_organization])
  /\ IF cards_data = << >>
       THEN li' = li + 1 /\ ci' = 0 /\ pc' = "lists"
       ELSE li' = li /\ ci' = 1 /\ pc' = "cards"
  /\ UNCHANGED <<restya_data, runsLeft, earlier, now, board_id, board_labels_dict,
                 data_lists_sorted, lbi, chi, card, cards, checklists_global,
                 card_counter, trello_data, written>>

\* list_item['id'] on a list without id: KeyError leaves main (line 203).
ListKeyError ==
  /\ pc = "lists"
  /\ li <= Len(data_lists_sorted)
  /\ ~Has(list_item, "id")
  /\ pc' = "fatal"
  /\ UNCHANGED <<restya_data, runsLeft, earlier, now, board_id, board_labels_dict,
                 data_lists_sorted, li, ci, lbi, chi, card, lists, cards,
                 checklists_global, card_counter, trello_data, written>>

(***************************************************************************)
(* Lines 217-225: one iteration head of the card loop.                     *)
(***************************************************************************)
NextCard ==
  /\ pc = "cards"
  /\ Has(card_item, "id")
  /\ card' = [card_id |-> gen_trello_id(card_item.id),
              cpos |-> list_pos + ci * card_pos_base,
              desc |-> Get(card_item, "description", ""),
              due_value |-> normalize_due(Get(card_item, "due_date", Null)),
              id_labels |-> << >>, card_labels |-> << >>, id_checklists |-> << >>]
  /\ lbi' = 1
  /\ chi' = 1
  /\ pc' = "card"
  /\ UNCHANGED <<restya_data, runsLeft, earlier, now, board_id, board_labels_dict,
                 data_lists_sorted, li, ci, lists, cards, checklists_global,
                 card_counter, trello_data, written>>

\* Faulty variant: what has been collected is dumped before the KeyError
\* leaves main.
CardKeyErrorWritesPartial ==
  /\ pc = "cards"
  /\ ~Has(card_item, "id")
  /\ pc' = "fatal"
  /\ written' = Append(written, [id |-> board_id, name |-> "RestyaBoard",
                                 cards |-> cards, lists |-> lists])
  /\ UNCHANGED <<restya_data, runsLeft, earlier, now, board_id, board_labels_dict,
                 data_lists_sorted, li, ci, lbi, chi, card, lists, cards,
                 checklists_global, card_counter, trello_data>>

\* card_item['id'] on a card without id: KeyError leaves main (line 218).
CardKeyError ==
  /\ pc = "cards"
  /\ ~Has(card_item, "id")
  /\ pc' = "fatal"
  /\ UNCHANGED <<restya_data, runsLeft, earlier, now, board_id, board_labels_dict,
                 data_lists_sorted, li, ci, lbi, chi, card, lists, cards,
                 checklists_global, card_counter, trello_data, written>>

(***************************************************************************)
(* Lines 227-239: one entry of cards_labels.                               *)
(***************************************************************************)
\* Faulty variant: the copy is taken before the increment of line 229.
EmbeddedCopyBeforeIncrement(label_obj) ==
  [id |-> label_obj.id, idBoard |-> label_obj.idBoard, name |-> label_obj.name,
   color |-> label_obj.color, uses |-> label_obj.uses - 1]

EmbeddedCopy(label_obj) ==
  [id |-> label_obj.id, idBoard |-> label_obj.idBoard, name |-> label_obj.name,
   color |-> label_obj.color, uses |-> label_obj.uses]

ResolveLabel ==
  /\ pc = "card"
  /\ lbi <= Len(card_refs)
  /\ LET lb == card_refs[lbi]
         key == MappedKey(lb)
         d == IncrementUses(get_or_create_board_label(board_labels_dict, lb, board_id), key)
         label_obj == d[KeyIndex(d, key)].val
     IN  /\ board_labels_dict' = d
         /\ card' = [card EXCEPT !.id_labels = Append(@, label_obj.id),
                                 !.card_labels = Append(@, EmbeddedCopy(label_obj))]
  /\ lbi' = lbi + 1
  /\ UNCHANGED <<restya_data, runsLeft, earlier, now, pc, board_id, data_lists_sorted,
                 li, ci, chi, lists, cards, checklists_global, card_counter,
                 trello_data, written>>

(***************************************************************************)
(* Lines 244-281: one entry of cards_checklists with all its items.        *)
(***************************************************************************)
CheckItem(ci_item, cii, ch_id) ==
  [id |-> gen_trello_id(ci_item.id),
   name |-> Get(ci_item, "name", ""),
   pos |-> 16384 * cii,
   state |-> IF Get(ci_item, "is_completed", 0) = 1 THEN "complete" ELSE "incomplete",
   idChecklist |-> ch_id]

ChecklistHasIds(ch) ==
  /\ Has(ch, "id")
  /\ \A j \in DOMAIN SeqOrEmpty(ch, "checklists_items") : Has(ch.checklists_items[j], "id")

NextChecklist ==
  /\ pc = "card"
  /\ lbi > Len(card_refs)
  /\ chi <= Len(card_checklists)
  /\ ChecklistHasIds(card_checklists[chi])
  /\ LET ch == card_checklists[chi]
         ch_id == gen_trello_id(ch.id)
         items == SeqOrEmpty(ch, "checklists_items")
         check_items == [j \in DOMAIN items |-> CheckItem(items[j], j, ch_id)]
         name == Get(ch, "name", "")
     IN  /\ checklists_global' = Append(checklists_global,
               [id |-> ch_id, name |-> IF name = "" THEN "Checklist" ELSE name,
                idBoard |-> board_id, idCard |-> card.card_id, pos |-> 16384 * chi,
                checkItems |-> check_items])
         /\ card' = [card EXCEPT !.id_checklists = Append(@, ch_id)]
  /\ chi' = chi + 1
  /\ UNCHANGED <<restya_data, runsLeft, earlier, now, pc, board_id, board_labels_dict,
                 data_lists_sorted, li, ci, lbi, lists, cards, card_counter,
                 trello_data, written>>

\* ch['id'] (line 245) or ci_item['id'] (line 251) on a record without id:
\* KeyError leaves main before the checklist is appended.
ChecklistKeyError ==
  /\ pc = "card"
  /\ lbi > Len(card_refs)
  /\ chi <= Len(card_checklists)
  /\ ~ChecklistHasIds(card_checklists[chi])
  /\ pc' = "fatal"
  /\ UNCHANGED <<restya_data, runsLeft, earlier, now, board_id, board_labels_dict,
                 data_lists_sorted, li, ci, lbi, chi, card, lists, cards,
                 checklists_global, card_counter, trello_data, written>>

(***************************************************************************)
(* Lines 284-324: the card is appended and the counter advances; the card  *)
(* loop and, after its last card, the list loop move on.                   *)
(***************************************************************************)
\* Faulty variant: idShort is the index of the card in its list.
NewCardListCounter(stamp) ==
  [id |-> card.card_id,
   name |-> Get(card_item, "name", ""),
   desc |-> card.desc,
   closed |-> (Get(card_item, "is_archived", 0) = 1),
   idBoard |-> board_id,
   idList |-> list_id,
   pos |-> card.cpos,
   idShort |-> ci,
   shortLink |-> gen_short_link(card.card_id),
   idLabels |-> card.id_labels,
   labels |-> card.card_labels,
   idChecklists |-> card.id_checklists,
   due |-> card.due_value,
   dateLastActivity |-> stamp]

\* Faulty variant: a card without due date is given the time of the run.
NewCardDueNow(stamp) ==
  [id |-> card.card_id,
   name |-> Get(card_item, "name", ""),
   desc |-> card.desc,
   closed |-> (Get(card_item, "is_archived", 0) = 1),
   idBoard |-> board_id,
   idList |-> list_id,
   pos |-> card.cpos,
   idShort |-> card_counter,
   shortLink |-> gen_short_link(card.card_id),
   idLabels |-> card.id_labels,
   labels |-> card.card_labels,
   idChecklists |-> card.id_checklists,
   due |-> IF card.due_value = Null THEN <<Digit[stamp + 1]>> ELSE card.due_value,
   dateLastActivity |-> stamp]

NewCard(stamp) ==
  [id |-> card.card_id,
   name |-> Get(card_item, "name", ""),
   desc |-> card.desc,
   closed |-> (Get(card_item, "is_archived", 0) = 1),
   idBoard |-> board_id,
   idList |-> list_id,
   pos |-> card.cpos,
   idShort |-> card_counter,
   shortLink |-> gen_short_link(card.card_id),
   idLabels |-> card.id_labels,
   labels |-> card.card_labels,
   idChecklists |-> card.id_checklists,
   due |-> card.due_value,
   dateLastActivity |-> stamp]

AppendCard ==
  /\ pc = "card"
  /\ lbi > Len(card_refs)
  /\ chi > Len(card_checklists)
  /\ \E t \in ClockReads :
       /\ now' = t
       /\ cards' = Append(cards, NewCard(t))
  /\ card_counter' = card_counter + 1
  /\ card' = NoCard
  /\ lbi' = 0
  /\ chi' = 0
  /\ IF ci < Len(cards_data)
       THEN li' = li /\ ci' = ci + 1 /\ pc' = "cards"
       ELSE li' = li + 1 /\ ci' = 0 /\ pc' = "lists"
  /\ UNCHANGED <<restya_data, runsLeft, earlier, board_id, board_labels_dict,
                 data_lists_sorted, lists, checklists_global, trello_data, written>>

(***************************************************************************)
(* Lines 326-458: the board is assembled once the list loop is exhausted.  *)
(***************************************************************************)
Board(t1, t2) ==
  [id |-> board_id, name |-> "RestyaBoard",
   dateLastActivity |-> t1, dateLastView |-> t2,
   cards |-> cards, labels |-> DictValues(board_labels_dict), lists |-> lists,
   checklists |-> checklists_global]

Assemble ==
  /\ pc = "lists"
  /\ li > Len(data_lists_sorted)
  /\ \E t1 \in ClockReads : \E t2 \in t1..MaxClock :
       /\ now' = t2
       /\ trello_data' = Board(t1, t2)
  /\ pc' = "write"
  /\ UNCHANGED <<restya_data, runsLeft, earlier, board_id, board_labels_dict,
                 data_lists_sorted, li, ci, lbi, chi, card, lists, cards,
                 checklists_global, card_counter, written>>

(***************************************************************************)
(* Lines 461-462: json.dump of the assembled board.                        *)
(***************************************************************************)
WriteOutput ==
  /\ pc = "write"
  /\ written' = Append(written, trello_data)
  /\ pc' = "done"
  /\ UNCHANGED <<restya_data, runsLeft, earlier, now, board_id, board_labels_dict,
                 data_lists_sorted, li, ci, lbi, chi, card, lists, cards,
                 checklists_global, card_counter, trello_data>>

(***************************************************************************)
(* The program is started again on the same document (lines 466-467): the  *)
(* earlier output is kept aside and main starts from scratch.              *)
(***************************************************************************)
Rerun ==
  /\ pc = "done"
  /\ runsLeft > 0
  /\ runsLeft' = runsLeft - 1
  /\ earlier' = Append(earlier, written[1])
  /\ pc' = "start"
  /\ board_id' = << >>
  /\ board_labels_dict' = << >>
  /\ data_lists_sorted' = << >>
  /\ li' = 0 /\ ci' = 0 /\ lbi' = 0 /\ chi' = 0
  /\ card' = NoCard
  /\ lists' = << >>
  /\ cards' = << >>
  /\ checklists_global' = << >>
  /\ card_counter' = 0
  /\ trello_data' = NoBoard
  /\ written' = << >>
  /\ UNCHANGED <<restya_data, now>>

Next ==
  \/ WriteEmptyBoard
  \/ Setup
  \/ NextList
  \/ ListKeyError
  \/ NextCard
  \/ CardKeyError
  \/ ResolveLabel
  \/ NextChecklist
  \/ ChecklistKeyError
  \/ AppendCard
  \/ Assemble
  \/ WriteOutput
  \/ Rerun

Spec == Init /\ [][Next]_vars


(***************************************************************************)
(* What the properties below say about the input, stated without the       *)
(* program's own loops.  The properties bind ExpectedLists and the         *)
(* traversal once per state (\A x \in {e} : ...).                          *)
(***************************************************************************)
Data == restya_data.data

\* Source list a comes before source list b in the output.
Before(a, b) ==
  \/ PositionKey(Data[a]) < PositionKey(Data[b])
  \/ PositionKey(Data[a]) = PositionKey(Data[b]) /\ a < b

Rank(k) == 1 + Cardinality({a \in DOMAIN Data : Before(a, k)})

\* The source lists in output order.
ExpectedLists == [r \in 1..Len(Data) |-> Data[CHOOSE k \in DOMAIN Data : Rank(k) = r]]

\* The traversal: <<list rank, index in the list>> of every card of the
\* lists el[r], el[r + 1], ...
RECURSIVE PlacesFrom(_, _)
PlacesFrom(el, r) ==
  IF r > Len(el) THEN << >>
  ELSE [c \in 1..Len(SeqOrEmpty(el[r], "cards")) |-> <<r, c>>] \o PlacesFrom(el, r + 1)

SourceCardAt(el, p) == el[p[1]].cards[p[2]]

SourceRefsAt(el, p) == SeqOrEmpty(SourceCardAt(el, p), "cards_labels")

AllSourceRefs ==
  UNION {UNION {{SeqOrEmpty(Data[k].cards[c], "cards_labels")[j] :
                   j \in DOMAIN SeqOrEmpty(Data[k].cards[c], "cards_labels")} :
                c \in DOMAIN SeqOrEmpty(Data[k], "cards")} :
         k \in DOMAIN Data}

Finished == pc = "done" /\ HasData

Out == written[1]

KeyOf(label) == <<label.color, label.name>>

(***************************************************************************)
(* C1. Label dedup invariant: the canonical labels never hold two entries  *)
(* with the same (color, name), and in the output of a completed           *)
(* conversion of non-empty input the (color, name) pairs of the            *)
(* board-level labels are exactly the mapped pairs of the label            *)
(* references of the input's cards, one entry per pair.                    *)
(***************************************************************************)
LabelDedup ==
  /\ \A i, j \in DOMAIN board_labels_dict :
       KeyOf(board_labels_dict[i].val) = KeyOf(board_labels_dict[j].val) => i = j
  /\ Finished =>
       /\ \A i, j \in DOMAIN Out.labels : KeyOf(Out.labels[i]) = KeyOf(Out.labels[j]) => i = j
       /\ {KeyOf(Out.labels[i]) : i \in DOMAIN Out.labels}
            = {MappedKey(lb) : lb \in AllSourceRefs}

\* Two source labels with different ids were merged into one canonical label,
\* and the conversion completed.
LabelDedupWitness ==
  /\ Finished
  /\ Len(Out.labels) = 1
  /\ \E a, b \in AllSourceRefs :
       /\ Has(a, "id") /\ Has(b, "id") /\ a.id # b.id
       /\ MappedKey(a) = MappedKey(b)

(***************************************************************************)
(* C2. uses counts cards: in the output of a completed conversion every    *)
(* board-level label's uses is the number of cards that hold at least one  *)
(* reference mapping to the label's (color, name).                         *)
(***************************************************************************)
UsesCountsCards ==
  Finished =>
    \A el \in {ExpectedLists} : \A pl \in {PlacesFrom(el, 1)} :
        \A l \in DOMAIN Out.labels :
          Out.labels[l].uses =
            Cardinality({i \in DOMAIN pl :
                           \E j \in DOMAIN SourceRefsAt(el, pl[i]) :
                             MappedKey(SourceRefsAt(el, pl[i])[j]) = KeyOf(Out.labels[l])})

(***************************************************************************)
(* C3. idShort sequence: the i-th card appended is the i-th card of the    *)
(* traversal (lists by ascending position, cards in source order) and      *)
(* carries idShort = i; a completed conversion has appended every card.    *)
(***************************************************************************)
IdShortSequence ==
  cards # << >> =>
    \A el \in {ExpectedLists} : \A pl \in {PlacesFrom(el, 1)} :
        /\ \A i \in DOMAIN cards :
             /\ cards[i].idShort = i
             /\ cards[i].id = gen_trello_id(SourceCardAt(el, pl[i]).id)
        /\ Finished =>
             /\ Len(Out.cards) = Len(pl)
             /\ \A i \in DOMAIN Out.cards : Out.cards[i].idShort = i

\* A completed conversion with a card in the first and in the third output
\* list and none in the second.
IdShortSequenceWitness ==
  /\ Finished
  /\ Len(Out.lists) >= 3
  /\ \E i, j \in DOMAIN Out.cards :
       /\ Out.cards[i].idList = Out.lists[1].id
       /\ Out.cards[j].idList = Out.lists[3].id
  /\ \A i \in DOMAIN Out.cards : Out.cards[i].idList # Out.lists[2].id

(***************************************************************************)
(* C4. Ordering invariant: the k-th output list is the source list of rank *)
(* k in the stable ascending order of position and has pos = 16384 * k;    *)
(* the i-th card of a list has pos = list pos + 16384 * i; list pos and    *)
(* the card pos within a list are strictly increasing.                     *)
(***************************************************************************)
Ordering ==
  lists # << >> =>
    \A el \in {ExpectedLists} : \A pl \in {PlacesFrom(el, 1)} :
        /\ \A k \in DOMAIN lists :
             /\ lists[k].id = gen_trello_id(el[k].id)
             /\ lists[k].pos = 16384 * k
        /\ \A i \in DOMAIN cards :
             /\ cards[i].idList = lists[pl[i][1]].id
             /\ cards[i].pos = lists[pl[i][1]].pos + 16384 * pl[i][2]
        /\ \A k, m \in DOMAIN lists : k < m => lists[k].pos < lists[m].pos
        /\ \A i, j \in DOMAIN cards :
             i < j /\ cards[i].idList = cards[j].idList => cards[i].pos < cards[j].pos
        /\ Finished => Len(Out.lists) = Len(Data)

\* A completed conversion of lists given out of order, two of them with equal
\* position keys.
OrderingWitness ==
  /\ Finished
  /\ \E a, b \in DOMAIN Data :
       /\ a < b
       /\ PositionKey(Data[a]) = PositionKey(Data[b])
       /\ \E c \in DOMAIN Data : c < a /\ PositionKey(Data[c]) > PositionKey(Data[a])
  /\ Len(Out.cards) >= 2

(***************************************************************************)
(* C5. Determinism: when the same document has been converted twice, the   *)
(* two written documents are equal once the wall-clock fields are left     *)
(* out.  DeterminismBoardStamps leaves out the two board-level fields      *)
(* only; DeterminismAllStamps also leaves out every card's                 *)
(* dateLastActivity (line 302).                                            *)
(***************************************************************************)
StripBoardStamps(doc) ==
  [k \in DOMAIN doc \ {"dateLastActivity", "dateLastView"} |-> doc[k]]

StripAllStamps(doc) ==
  [k \in DOMAIN doc \ {"dateLastActivity", "dateLastView"} |->
     IF k = "cards"
       THEN [i \in DOMAIN doc.cards |-> Without(doc.cards[i], "dateLastActivity")]
       ELSE doc[k]]

ConvertedTwice == earlier # << >> /\ pc = "done"

DeterminismBoardStamps ==
  ConvertedTwice => StripBoardStamps(earlier[1]) = StripBoardStamps(written[1])

DeterminismAllStamps ==
  ConvertedTwice => StripAllStamps(earlier[1]) = StripAllStamps(written[1])

\* Two conversions of a document with a labelled card, at different times.
DeterminismWitness ==
  /\ ConvertedTwice
  /\ HasData
  /\ Out.labels # << >>
  /\ Out.dateLastView # earlier[1].dateLastView
  /\ \E i \in DOMAIN Out.cards :
       Out.cards[i].dateLastActivity # earlier[1].cards[i].dateLastActivity

(***************************************************************************)
(* C6. No partial output: a run writes at most once; when some list or     *)
(* card of a non-empty input lacks its id, nothing is ever written, the    *)
(* run never reaches the assembly, and it can stop only in the fatal       *)
(* state; what is written was assembled after every list and card.         *)
(***************************************************************************)
MissingListOrCardId ==
  \E k \in DOMAIN Data :
    \/ ~Has(Data[k], "id")
    \/ \E c \in DOMAIN SeqOrEmpty(Data[k], "cards") : ~Has(Data[k].cards[c], "id")

NoPartialOutput ==
  /\ Len(written) <= 1
  /\ HasData /\ MissingListOrCardId =>
       /\ written = << >>
       /\ pc \in {"start", "lists", "cards", "card", "fatal"}
       /\ pc # "fatal" => ENABLED Next
  /\ HasData /\ written # << >> =>
       /\ li > Len(data_lists_sorted)
       /\ Len(lists) = Len(Data)
       /\ Len(cards) = Len(PlacesFrom(Data, 1))
       /\ written[1].lists = lists
       /\ written[1].cards = cards

\* A run stopped by a missing id after it had already produced a list and a
\* card.
NoPartialOutputWitness ==
  /\ HasData
  /\ MissingListOrCardId
  /\ pc = "fatal"
  /\ lists # << >>
  /\ cards # << >>

(***************************************************************************)
(* C7. Only a missing list or card id is fatal: a conversion of non-empty  *)
(* input in which every list and every card has its id never ends in the   *)
(* fatal state.                                                            *)
(***************************************************************************)
OnlyListOrCardIdFatal ==
  HasData /\ ~MissingListOrCardId => pc # "fatal"

(***************************************************************************)
(* C8. Unknown color: every embedded label copy, and a board-level label   *)
(* with it, carries the palette's (color, name) for the source reference's *)
(* color when the palette has it, and otherwise color "green" with the     *)
(* default name.  UnknownColorNormalOK takes "normal/OK" for the default   *)
(* name, UnknownColorDefault the literal of line 171.                      *)
(***************************************************************************)
ExpectedPair(restya_label, default_name) ==
  LET hex == Get(restya_label, "color", "")
  IN  IF hex \in DOMAIN COLOR_MAPPING
        THEN <<COLOR_MAPPING[hex].trello_color, COLOR_MAPPING[hex].label_name>>
        ELSE <<"green", default_name>>

ResolvesWithDefault(default_name) ==
  cards # << >> =>
    \A el \in {ExpectedLists} : \A pl \in {PlacesFrom(el, 1)} :
      \A i \in DOMAIN cards :
        /\ Len(cards[i].labels) = Len(SourceRefsAt(el, pl[i]))
        /\ \A j \in DOMAIN cards[i].labels :
             LET want == ExpectedPair(SourceRefsAt(el, pl[i])[j], default_name)
             IN  /\ KeyOf(cards[i].labels[j]) = want
                 /\ \E b \in DOMAIN board_labels_dict :
                      KeyOf(board_labels_dict[b].val) = want
                 /\ Finished => \E b \in DOMAIN Out.labels : KeyOf(Out.labels[b]) = want

EmptyInput ==
  /\ ~HasData =>
       /\ pc \in {"start", "done"}
       /\ lists = << >> /\ cards = << >> /\ board_labels_dict = << >>
       /\ data_lists_sorted = << >> /\ checklists_global = << >>
       /\ DOMAIN trello_data = {}
       /\ pc = "start" => written = << >>
       /\ pc = "done" =>
            /\ Len(written) = 1
            /\ written[1].name = "TrelloBoard"
            /\ written[1].lists = << >>
            /\ written[1].cards = << >>
            /\ written[1].labels = << >>
  /\ HasData =>
       \A w \in DOMAIN written :
         written[w].name # "TrelloBoard" /\ written[w].lists # << >>

\* The document {"data": []} has been converted.
EmptyInputWitness ==
  /\ Has(restya_data, "data")
  /\ ~HasData
  /\ pc = "done"
  /\ written # << >>

(***************************************************************************)
(* C10. Embedded label copies are frozen: no step changes a copy already   *)
(* appended to a card (in progress, appended, assembled or written); in    *)
(* the output the k-th copy, in traversal order, of a canonical label      *)
(* carries uses = k, the board-level entry carries the total, and each     *)
(* copy's id, idBoard, name and color are those of a board-level entry     *)
(* whose id is at the same index of idLabels, namely the entry of the      *)
(* copy's (color, name).                                                   *)
(***************************************************************************)
CopiesKept ==
  pc' # "start" =>
    /\ \A i \in DOMAIN cards :
         i \in DOMAIN cards' /\ cards'[i].labels = cards[i].labels
    /\ DOMAIN card # {} /\ DOMAIN card' # {} =>
         \A j \in DOMAIN card.card_labels :
           j \in DOMAIN card'.card_labels /\ card'.card_labels[j] = card.card_labels[j]
    /\ DOMAIN card # {} /\ DOMAIN card' = {} /\ pc' # "fatal" =>
         cards'[Len(cards')].labels = card.card_labels
    /\ DOMAIN trello_data' # {} => trello_data'.cards = cards
    /\ \A w \in DOMAIN written : w \in DOMAIN written' /\ written'[w] = written[w]

\* The copies of key among the first j copies of card i and all copies of the
\* cards before it.
CopiesUpTo(doc, key, i, j) ==
  Cardinality({p \in UNION {{<<a, b>> : b \in DOMAIN doc.cards[a].labels} :
                               a \in (1..i) \cap DOMAIN doc.cards} :
                 /\ p[1] < i \/ p[2] <= j
                 /\ KeyOf(doc.cards[p[1]].labels[p[2]]) = key})

CopiesFinal ==
  Finished =>
    /\ \A i \in DOMAIN Out.cards :
         /\ Len(Out.cards[i].idLabels) = Len(Out.cards[i].labels)
         /\ \A j \in DOMAIN Out.cards[i].labels :
              LET copy == Out.cards[i].labels[j]
              IN  /\ copy.uses = CopiesUpTo(Out, KeyOf(copy), i, j)
                  /\ Out.cards[i].idLabels[j] = copy.id
                  /\ \E b \in DOMAIN Out.labels :
                       /\ Out.labels[b].id = Out.cards[i].idLabels[j]
                       /\ Out.labels[b].idBoard = copy.idBoard
                       /\ Out.labels[b].name = copy.name
                       /\ Out.labels[b].color = copy.color
                  /\ \A b \in DOMAIN Out.labels :
                       KeyOf(Out.labels[b]) = KeyOf(copy) =>
                         /\ Out.labels[b].id = Out.cards[i].idLabels[j]
                         /\ Out.labels[b].idBoard = copy.idBoard
                         /\ Out.labels[b].uses >= copy.uses
    /\ \A b \in DOMAIN Out.labels :
         Out.labels[b].uses =
           CopiesUpTo(Out, KeyOf(Out.labels[b]), Len(Out.cards) + 1, 0)

=============================================================================
